---- MODULE Spec2Model ----
(***************************************************************************)
(* Model of src/fetch-real-sizes.py: the registry-tag crawler              *)
(* (fetch_all_tags) and the reconciliation and persistence done by main.   *)
(*                                                                         *)
(* Sizes in GB are Python floats rounded to 2 decimals; they are held here *)
(* as integers counting hundredths of a GB (1.25 GB is 125).  Sleep        *)
(* durations are held in milliseconds (time.sleep(0.5) is 500).            *)
(* TLC integers are 32 bit, so byte sizes are drawn below 2^31.            *)
(***************************************************************************)
EXTENDS Integers, Sequences, FiniteSets, TLC

\* Highest page number the modelled registry is crawled to.
MaxPage == 2

\* range(3): the retries after the initial attempt.
MaxRetries == 3

\* time.sleep(0.5), in milliseconds.
PageDelayMs == 500

\* 1024 ** 3
GiB == 1024 * 1024 * 1024

VARIABLES
    gamesFile,      \* public/data/games.json: [present, games (the ids, in file order)]
    sizesFile,      \* public/data/image-sizes.json: [state, content]
    sizesFile0,     \* history: image-sizes.json as it was before the run
    pc,             \* position of the single control flow
    games,          \* main's local `games`: [bound, val]
    expected_ids,   \* main's local `expected_ids`
    page,           \* fetch_all_tags: page cursor
    all_tags,       \* fetch_all_tags: tag name -> size_gb
    data,           \* fetch_all_tags: the parsed body of the last successful GET
    retry,          \* fetch_all_tags: loop variable of `for retry in range(3)`
    hub_sizes,      \* main: the mapping fetch_all_tags returned
    existing_sizes, \* main: the prior snapshot as read
    final_sizes,    \* main: the mapping being built
    found_count,
    missing_count,
    idx,            \* main: position of `for game in games`
    summary,        \* what the summary block reported: [emitted, total, found, missing]
    attempts,       \* history: GETs issued for the current page
    failures,       \* history: of those, the attempts that raised
    parseFails,     \* history: of those, answers whose body was not JSON
    lastBadPage,    \* history: last page that answered with a body that was not JSON (0: none)
    sleeps,         \* history: time.sleep durations since the page cursor last changed
    lastGetPage,    \* history: page of the last GET issued (0: none)
    maxGetPage,     \* history: highest page a GET was issued for (0: none)
    tagsAtPage,     \* history: all_tags when the cursor reached the current page
    lastSized,      \* history: tag name -> the last record absorbed that carried a size
    stop,           \* history: why the crawl returned
    ioDone          \* history: kinds of I/O performed so far

vars == << gamesFile, sizesFile, sizesFile0, pc, games, expected_ids, page, all_tags,
           data, retry, hub_sizes, existing_sizes, final_sizes, found_count,
           missing_count, idx, summary, attempts, failures, parseFails, lastBadPage, sleeps,
           lastGetPage, maxGetPage, tagsAtPage, lastSized, stop, ioDone >>

-----------------------------------------------------------------------------
(* Helpers for Python dicts *)

EmptyMap == [k \in {} |-> 0]

\* d[k] = v
Put(d, k, v) == [n \in (DOMAIN d) \cup {k} |-> IF n = k THEN v ELSE d[n]]

\* d.get(k, default)
Get(d, k, default) == IF k \in DOMAIN d THEN d[k] ELSE default

Max(a, b) == IF a >= b THEN a ELSE b

-----------------------------------------------------------------------------
(* Pure parts of fetch_all_tags *)

\* round(full_size / (1024 ** 3), 2), in hundredths of a GB, for 0 <= full_size < 2^31.
\* full_size / 2^30 is exact in a double, and Python rounds the exact value to the
\* nearest hundredth, a tie going to the even neighbour.  full_size * 100 / 2^30 is
\* full_size * 25 / 2^28, computed here in pieces that stay below 2^31.
SizeGB(full_size) ==
    LET P28  == 16384 * 16384
        q    == full_size \div P28
        r    == full_size % P28
        r1   == r \div 16384
        r0   == r % 16384
        f    == (25 * r1) \div 16384
        a    == (25 * r1) % 16384
        n    == a * 16384 + 25 * r0
        fl   == 25 * q + f + (n \div P28)
        rem  == n % P28
        half == P28 \div 2
    IN  IF rem > half THEN fl + 1
        ELSE IF rem < half THEN fl
        ELSE IF fl % 2 = 0 THEN fl ELSE fl + 1

RECURSIVE SumSizes(_)
\* sum(img.get('size', 0) for img in images)
SumSizes(images) ==
    IF images = << >> THEN 0
    ELSE Get(Head(images), "size", 0) + SumSizes(Tail(images))

\* Mutant of EffectiveSize: the images are never summed.
EffectiveSize_NoFallback(tag) == Get(tag, "full_size", 0)

\* The value of full_size after lines 59-66.
EffectiveSize(tag) ==
    LET full_size == Get(tag, "full_size", 0)
        images    == Get(tag, "images", << >>)
    IN  IF full_size = 0
        THEN IF images # << >> THEN SumSizes(images) ELSE full_size
        ELSE full_size

\* Mutant of AbsorbTag: a name already stored is not overwritten.
AbsorbTag_KeepFirst(tags, tag) ==
    LET tag_name  == Get(tag, "name", "")
        full_size == EffectiveSize(tag)
    IN  IF tag_name # "" /\ full_size > 0 /\ tag_name \notin DOMAIN tags
        THEN Put(tags, tag_name, SizeGB(full_size))
        ELSE tags

\* Mutant of AbsorbTag: the name is not looked at.
AbsorbTag_NoNameCheck(tags, tag) ==
    LET tag_name  == Get(tag, "name", "")
        full_size == EffectiveSize(tag)
    IN  IF full_size > 0
        THEN Put(tags, tag_name, SizeGB(full_size))
        ELSE tags

\* Mutant of AbsorbTag: a record of size 0 removes the entry of its name.
AbsorbTag_DropZero(tags, tag) ==
    LET tag_name  == Get(tag, "name", "")
        full_size == EffectiveSize(tag)
    IN  IF tag_name # "" /\ full_size > 0
        THEN Put(tags, tag_name, SizeGB(full_size))
        ELSE [k \in DOMAIN tags \ {tag_name} |-> tags[k]]

\* One iteration of `for tag in results` (lines 57-71).
AbsorbTag(tags, tag) ==
    LET tag_name  == Get(tag, "name", "")
        full_size == EffectiveSize(tag)
    IN  IF tag_name # "" /\ full_size > 0
        THEN Put(tags, tag_name, SizeGB(full_size))
        ELSE tags

RECURSIVE Absorb(_, _)
\* The loop `for tag in results` (lines 56-71).
Absorb(tags, results) ==
    IF results = << >> THEN tags
    ELSE Absorb(AbsorbTag(tags, Head(results)), Tail(results))

\* Mutant of WaitTime: a linear backoff, 2 * (retry + 1).
WaitTime_Linear(r) == 1000 * (2 * (r + 1))

\* wait_time = 2 ** (retry + 1), in milliseconds.
WaitTime(r) == 1000 * (2 ^ (r + 1))

-----------------------------------------------------------------------------
(* The inputs of a run *)

\* Tag records the registry may serve.
TagBig      == [name |-> "a", full_size |-> GiB]
TagTiny     == [name |-> "a", full_size |-> 1000]
TagLayers   == [name |-> "x", full_size |-> 0,
                images |-> << [size |-> 402653184], [size |-> 134217728] >>]
TagEighth   == [name |-> "b", full_size |-> 134217728]
TagUnknown  == [name |-> "b", full_size |-> 0, images |-> << >>]
TagNoSize   == [name |-> "c"]
TagNoName   == [full_size |-> GiB]
TagEmptyName == [name |-> "", full_size |-> GiB]
TagNegative == [name |-> "c", full_size |-> -1, images |-> << [size |-> 536870912] >>]

\* The `results` lists the registry may answer with.
ResultLists ==
    { << >>,
      << TagBig >>,
      << TagTiny, TagLayers >>,
      << TagEighth, TagNoName >>,
      << TagUnknown, TagNoSize, TagEmptyName >>,
      << TagNegative, TagBig, TagTiny >> }

\* A parsed page body: `results` and the truthiness of `next`.
PageBodies == [results : ResultLists, next : BOOLEAN]

\* games.json: absent, or a list of game records (their ids).
GamesFiles ==
    { [present |-> FALSE, games |-> << >>],
      [present |-> TRUE,  games |-> << "a", "b", "c" >>],
      [present |-> TRUE,  games |-> << "b", "a" >>] }

\* image-sizes.json before the run: absent, or a mapping id -> GB.
SizesFiles ==
    { [state |-> "absent",   content |-> EmptyMap],
      [state |-> "complete", content |-> [k \in {"b"} |-> 320]],
      [state |-> "complete", content |-> [k \in {"a", "b"} |-> IF k = "a" THEN 100 ELSE 12]],
      [state |-> "complete",
       content |-> [k \in {"a", "c", "z"} |->
                       IF k = "a" THEN 150 ELSE IF k = "c" THEN 42 ELSE 0]] }

NoData == [results |-> << >>, next |-> FALSE]
NoSummary == [emitted |-> FALSE, total |-> 0, found |-> 0, missing |-> 0]

Init ==
    /\ gamesFile \in GamesFiles
    /\ sizesFile \in SizesFiles
    /\ sizesFile0 = sizesFile
    /\ pc = "read_games"
    /\ games = [bound |-> FALSE, val |-> << >>]
    /\ expected_ids = {}
    /\ page = 1
    /\ all_tags = EmptyMap
    /\ data = NoData
    /\ retry = 0
    /\ hub_sizes = EmptyMap
    /\ existing_sizes = EmptyMap
    /\ final_sizes = EmptyMap
    /\ found_count = 0
    /\ missing_count = 0
    /\ idx = 1
    /\ summary = NoSummary
    /\ attempts = 0
    /\ failures = 0
    /\ parseFails = 0
    /\ lastBadPage = 0
    /\ sleeps = << >>
    /\ lastGetPage = 0
    /\ maxGetPage = 0
    /\ tagsAtPage = EmptyMap
    /\ lastSized = EmptyMap
    /\ stop = "none"
    /\ ioDone = {}

-----------------------------------------------------------------------------
(* main, lines 91-102 *)

mainVars == << games, expected_ids, hub_sizes, existing_sizes, final_sizes,
               found_count, missing_count, idx, summary >>
crawlVars == << page, all_tags, data, retry >>
histVars == << attempts, failures, parseFails, lastBadPage, sleeps, lastGetPage, maxGetPage,
               tagsAtPage, stop >>
fileVars == << gamesFile, sizesFile, sizesFile0 >>
seenVars == << lastSized >>

\* Mutant of ReadGames: the except branch also sets `games = []`.
ReadGames_EmptyList ==
    /\ pc = "read_games"
    /\ games' = [bound |-> TRUE,
                 val |-> IF gamesFile.present THEN gamesFile.games ELSE << >>]
    /\ expected_ids' = IF gamesFile.present
                       THEN { gamesFile.games[i] : i \in 1..Len(gamesFile.games) }
                       ELSE {}
    /\ ioDone' = ioDone \cup {"read_games"}
    /\ pc' = "get"
    /\ UNCHANGED << hub_sizes, existing_sizes, final_sizes, found_count,
                    missing_count, idx, summary >>
    /\ UNCHANGED << crawlVars, histVars, fileVars >>
    /\ UNCHANGED seenVars

\* Mutant of ReadGames: the except branch ends the process (sys.exit).
ReadGames_Exit ==
    /\ pc = "read_games"
    /\ IF gamesFile.present
       THEN /\ games' = [bound |-> TRUE, val |-> gamesFile.games]
            /\ expected_ids' = { gamesFile.games[i] : i \in 1..Len(gamesFile.games) }
            /\ pc' = "get"
       ELSE /\ games' = games
            /\ expected_ids' = {}
            /\ pc' = "aborted"
    /\ ioDone' = ioDone \cup {"read_games"}
    /\ UNCHANGED << hub_sizes, existing_sizes, final_sizes, found_count,
                    missing_count, idx, summary >>
    /\ UNCHANGED << crawlVars, histVars, fileVars >>
    /\ UNCHANGED seenVars

\* Lines 91-99, then the call of fetch_all_tags (lines 21-23).
ReadGames ==
    /\ pc = "read_games"
    /\ IF gamesFile.present
       THEN /\ games' = [bound |-> TRUE, val |-> gamesFile.games]
            /\ expected_ids' = { gamesFile.games[i] : i \in 1..Len(gamesFile.games) }
       ELSE \* FileNotFoundError: `games` stays unbound
            /\ games' = games
            /\ expected_ids' = {}
    /\ ioDone' = ioDone \cup {"read_games"}
    /\ pc' = "get"
    /\ UNCHANGED << hub_sizes, existing_sizes, final_sizes, found_count,
                    missing_count, idx, summary >>
    /\ UNCHANGED << crawlVars, histVars, fileVars >>
    /\ UNCHANGED seenVars

-----------------------------------------------------------------------------
(* fetch_all_tags, lines 27-83 *)

\* What one requests.get + raise_for_status + response.json() can end in:
\* a parsed body, a network error / timeout / bad status, or a body that is not JSON.
FailureKinds == {"error", "badjson"}

\* Mutant of IsRequestException: a JSON decoding error that is a plain ValueError.
IsRequestException_NoJson(kind) == kind = "error"

\* `except requests.exceptions.RequestException`: ConnectionError, Timeout and
\* HTTPError are RequestExceptions, and so is the JSONDecodeError that
\* response.json() raises (requests.exceptions.JSONDecodeError).
IsRequestException(kind) == kind \in {"error", "badjson"}

\* History kept for every GET issued for the current page.
NoteGet ==
    /\ attempts' = attempts + 1
    /\ lastGetPage' = page
    /\ maxGetPage' = Max(maxGetPage, page)
    /\ ioDone' = ioDone \cup {"GET"}

NoteFailure(kind) ==
    /\ failures' = failures + 1
    /\ parseFails' = IF kind = "badjson" THEN parseFails + 1 ELSE parseFails
    /\ lastBadPage' = IF kind = "badjson" THEN page ELSE lastBadPage

\* `return all_tags` (lines 49 and 83) back into main (line 102).
Return(tags, why) ==
    /\ hub_sizes' = tags
    /\ stop' = why
    /\ pc' = "read_sizes"

\* Lines 28-33: the initial attempt for the page succeeds.
GetOk ==
    /\ pc = "get"
    /\ \E body \in PageBodies : data' = body
    /\ NoteGet
    /\ pc' = "process"
    /\ UNCHANGED << page, all_tags, retry, mainVars, fileVars >>
    /\ UNCHANGED << failures, parseFails, lastBadPage, sleeps, tagsAtPage, stop >>
    /\ UNCHANGED seenVars

\* Mutant of GetFail: the retry counter goes on from where the last page left it.
GetFail_KeepRetry ==
    /\ pc = "get"
    /\ NoteGet
    /\ \E kind \in FailureKinds :
          /\ NoteFailure(kind)
          /\ retry' = retry
          /\ pc' = IF IsRequestException(kind) THEN "retry_sleep" ELSE "aborted"
    /\ UNCHANGED << page, all_tags, data, mainVars, fileVars >>
    /\ UNCHANGED << sleeps, tagsAtPage, stop >>
    /\ UNCHANGED seenVars

\* Lines 28-37: the initial attempt raises; the retry loop is entered.
GetFail ==
    /\ pc = "get"
    /\ NoteGet
    /\ \E kind \in FailureKinds :
          /\ NoteFailure(kind)
          /\ IF IsRequestException(kind)
             THEN /\ retry' = 0
                  /\ pc' = "retry_sleep"
             ELSE \* not caught: the exception leaves fetch_all_tags and main
                  /\ retry' = retry
                  /\ pc' = "aborted"
    /\ UNCHANGED << page, all_tags, data, mainVars, fileVars >>
    /\ UNCHANGED << sleeps, tagsAtPage, stop >>
    /\ UNCHANGED seenVars

\* Lines 38-40: the backoff sleep before a retry.
RetrySleep ==
    /\ pc = "retry_sleep"
    /\ sleeps' = Append(sleeps, WaitTime(retry))
    /\ ioDone' = ioDone \cup {"sleep"}
    /\ pc' = "retry_get"
    /\ UNCHANGED << crawlVars, mainVars, fileVars >>
    /\ UNCHANGED << attempts, failures, parseFails, lastBadPage, lastGetPage,
                    maxGetPage, tagsAtPage, stop >>
    /\ UNCHANGED seenVars

\* Lines 41-45: a retry succeeds; `break` leaves the retry loop.
RetryOk ==
    /\ pc = "retry_get"
    /\ \E body \in PageBodies : data' = body
    /\ NoteGet
    /\ pc' = "process"
    /\ UNCHANGED << page, all_tags, retry, mainVars, fileVars >>
    /\ UNCHANGED << failures, parseFails, lastBadPage, sleeps, tagsAtPage, stop >>
    /\ UNCHANGED seenVars

\* Line 47: `if retry == 2`, the last pass of `for retry in range(3)`.
IsLastRetry(r) == r = MaxRetries - 1

\* Mutant of GiveUp: `return {}`, the partial aggregation is discarded.
GiveUp_Discard == Return(EmptyMap, "failure")

\* Lines 48-49: give up on the page and return what was aggregated.
GiveUp == Return(all_tags, "failure")

\* Lines 41-50: a retry raises; the last one returns what was aggregated.
RetryFail ==
    /\ pc = "retry_get"
    /\ NoteGet
    /\ \E kind \in FailureKinds :
          /\ NoteFailure(kind)
          /\ IF ~ IsRequestException(kind)
             THEN \* not caught: the exception leaves fetch_all_tags and main
                  /\ pc' = "aborted"
                  /\ UNCHANGED << retry, hub_sizes, stop >>
             ELSE IF IsLastRetry(retry)
             THEN /\ GiveUp
                  /\ retry' = retry
             ELSE /\ retry' = retry + 1
                  /\ pc' = "retry_sleep"
                  /\ UNCHANGED << hub_sizes, stop >>
    /\ UNCHANGED << page, all_tags, data, fileVars >>
    /\ UNCHANGED << games, expected_ids, existing_sizes, final_sizes, found_count,
                    missing_count, idx, summary >>
    /\ UNCHANGED << sleeps, tagsAtPage >>
    /\ UNCHANGED seenVars

\* Mutant of PageEmpty: `continue` instead of `break`, the page is fetched again.
PageEmpty_Refetch ==
    /\ pc = "process"
    /\ data.results = << >>
    /\ pc' = "get"
    /\ attempts' = 0
    /\ failures' = 0
    /\ parseFails' = 0
    /\ UNCHANGED << crawlVars, mainVars, fileVars, ioDone >>
    /\ UNCHANGED << lastBadPage, sleeps, lastGetPage, maxGetPage, tagsAtPage, stop >>
    /\ UNCHANGED seenVars

\* The size a record carries: its full_size, or when that is 0 or absent the sum
\* of its images' sizes.
CarriedSize(rec) ==
    LET primary == IF "full_size" \in DOMAIN rec THEN rec.full_size ELSE 0
        layers  == IF "images" \in DOMAIN rec THEN rec.images ELSE << >>
    IN  IF primary # 0 THEN primary ELSE SumSizes(layers)

RECURSIVE SizedAfter(_, _)
\* History of `for tag in results`: per non-empty name, the last record that
\* carried a positive size.
SizedAfter(seen, results) ==
    IF results = << >> THEN seen
    ELSE LET rec  == Head(results)
             keep == /\ "name" \in DOMAIN rec
                     /\ rec.name # ""
                     /\ CarriedSize(rec) > 0
         IN  SizedAfter(IF keep THEN Put(seen, rec.name, rec) ELSE seen, Tail(results))

NoteAbsorbed == lastSized' = SizedAfter(lastSized, data.results)

\* Mutant of PageEmpty: an empty page with a `next` does not end the crawl.
PageEmpty_HonoursNext ==
    /\ pc = "process"
    /\ data.results = << >>
    /\ IF data.next /\ page < MaxPage
       THEN /\ all_tags' = all_tags
            /\ page' = page + 1
            /\ sleeps' = << PageDelayMs >>
            /\ ioDone' = ioDone \cup {"sleep"}
            /\ attempts' = 0
            /\ failures' = 0
            /\ parseFails' = 0
            /\ tagsAtPage' = all_tags
            /\ pc' = "get"
            /\ UNCHANGED << data, retry, mainVars, fileVars >>
            /\ UNCHANGED << lastBadPage, lastGetPage, maxGetPage, stop >>
       ELSE /\ Return(all_tags, "exhausted")
            /\ UNCHANGED << crawlVars, fileVars, ioDone >>
            /\ UNCHANGED << games, expected_ids, existing_sizes, final_sizes,
                            found_count, missing_count, idx, summary >>
            /\ UNCHANGED << attempts, failures, parseFails, lastBadPage, sleeps,
                            lastGetPage, maxGetPage, tagsAtPage >>
    /\ UNCHANGED seenVars

\* Lines 52-54 and 83: a page without records ends the crawl.
PageEmpty ==
    /\ pc = "process"
    /\ data.results = << >>
    /\ Return(all_tags, "exhausted")
    /\ UNCHANGED << crawlVars, fileVars, ioDone >>
    /\ UNCHANGED << games, expected_ids, existing_sizes, final_sizes, found_count,
                    missing_count, idx, summary >>
    /\ UNCHANGED << attempts, failures, parseFails, lastBadPage, sleeps,
                    lastGetPage, maxGetPage, tagsAtPage >>
    /\ UNCHANGED seenVars

\* Mutant of HasNext: the `next` indicator is not looked at.
HasNext_Always(d) == TRUE

\* Line 76: data.get('next') is truthy.
HasNext(d) == d.next

\* Lines 52-77 and 83: the page is absorbed and has no `next`.
AbsorbLast ==
    /\ pc = "process"
    /\ data.results # << >>
    /\ ~ HasNext(data)
    /\ all_tags' = Absorb(all_tags, data.results)
    /\ NoteAbsorbed
    /\ Return(all_tags', "no_next")
    /\ UNCHANGED << page, data, retry, fileVars, ioDone >>
    /\ UNCHANGED << games, expected_ids, existing_sizes, final_sizes, found_count,
                    missing_count, idx, summary >>
    /\ UNCHANGED << attempts, failures, parseFails, lastBadPage, sleeps,
                    lastGetPage, maxGetPage, tagsAtPage >>

\* Mutant of Advance: the cursor is moved twice, a page is skipped.
Advance_Skip(p) ==
    /\ page' = p + 1
    /\ sleeps' = << PageDelayMs >>
    /\ ioDone' = ioDone \cup {"sleep"}
    /\ attempts' = 0
    /\ failures' = 0
    /\ parseFails' = 0
    /\ tagsAtPage' = all_tags'
    /\ pc' = "get"

\* Mutant of Advance: the cursor moves on without the delay.
Advance_NoDelay(p) ==
    /\ page' = p
    /\ sleeps' = << >>
    /\ ioDone' = ioDone
    /\ attempts' = 0
    /\ failures' = 0
    /\ parseFails' = 0
    /\ tagsAtPage' = all_tags'
    /\ pc' = "get"

\* Lines 79-81 and the history reset for the new page.
Advance(p) ==
    /\ page' = p
    /\ sleeps' = << PageDelayMs >>
    /\ ioDone' = ioDone \cup {"sleep"}
    /\ attempts' = 0
    /\ failures' = 0
    /\ parseFails' = 0
    /\ tagsAtPage' = all_tags'
    /\ pc' = "get"

\* Lines 52-81: the page is absorbed and has a `next`; on to page + 1.
AbsorbNext ==
    /\ pc = "process"
    /\ data.results # << >>
    /\ HasNext(data)
    /\ page < MaxPage
    /\ all_tags' = Absorb(all_tags, data.results)
    /\ NoteAbsorbed
    /\ Advance(page + 1)
    /\ UNCHANGED << data, retry, mainVars, fileVars >>
    /\ UNCHANGED << lastBadPage, lastGetPage, maxGetPage, stop >>

-----------------------------------------------------------------------------
(* main, lines 104-155 *)

\* Mutant of ReadSizes: a missing snapshot ends the run.
ReadSizes_Strict ==
    /\ pc = "read_sizes"
    /\ existing_sizes' = IF sizesFile.state = "absent" THEN EmptyMap
                         ELSE sizesFile.content
    /\ final_sizes' = EmptyMap
    /\ found_count' = 0
    /\ missing_count' = 0
    /\ idx' = 1
    /\ ioDone' = ioDone \cup {"read_sizes"}
    /\ pc' = IF sizesFile.state = "absent" THEN "aborted" ELSE "reconcile"
    /\ UNCHANGED << games, expected_ids, hub_sizes, summary >>
    /\ UNCHANGED << crawlVars, histVars, fileVars >>
    /\ UNCHANGED seenVars

\* Lines 104-116: read the prior snapshot, start the final mapping.
ReadSizes ==
    /\ pc = "read_sizes"
    /\ existing_sizes' = IF sizesFile.state = "absent" THEN EmptyMap
                         ELSE sizesFile.content
    /\ final_sizes' = EmptyMap
    /\ found_count' = 0
    /\ missing_count' = 0
    /\ idx' = 1
    /\ ioDone' = ioDone \cup {"read_sizes"}
    /\ pc' = "reconcile"
    /\ UNCHANGED << games, expected_ids, hub_sizes, summary >>
    /\ UNCHANGED << crawlVars, histVars, fileVars >>
    /\ UNCHANGED seenVars

\* Line 118 with `games` unbound: UnboundLocalError, nothing catches it.
ReconcileUnbound ==
    /\ pc = "reconcile"
    /\ ~ games.bound
    /\ pc' = "aborted"
    /\ UNCHANGED << mainVars, crawlVars, histVars, fileVars, ioDone >>
    /\ UNCHANGED seenVars

\* Mutant of Resolve: an id without any value is left out of the mapping.
Resolve_SkipUnknown(final, hub, existing, game_id) ==
    IF game_id \in DOMAIN hub THEN Put(final, game_id, hub[game_id])
    ELSE IF game_id \in DOMAIN existing THEN Put(final, game_id, existing[game_id])
    ELSE final

\* Mutant of Resolve: the prior snapshot is looked at first.
Resolve_PriorFirst(final, hub, existing, game_id) ==
    IF game_id \in DOMAIN existing THEN Put(final, game_id, existing[game_id])
    ELSE IF game_id \in DOMAIN hub THEN Put(final, game_id, hub[game_id])
    ELSE Put(final, game_id, 0)

\* Mutant of Resolve: the mapping is reassigned instead of extended.
Resolve_Reassign(final, hub, existing, game_id) ==
    IF game_id \in DOMAIN hub THEN Put(EmptyMap, game_id, hub[game_id])
    ELSE IF game_id \in DOMAIN existing THEN Put(EmptyMap, game_id, existing[game_id])
    ELSE Put(EmptyMap, game_id, 0)

\* final_sizes after lines 119-131 for one game.
Resolve(final, hub, existing, game_id) ==
    IF game_id \in DOMAIN hub THEN Put(final, game_id, hub[game_id])
    ELSE IF game_id \in DOMAIN existing THEN Put(final, game_id, existing[game_id])
    ELSE Put(final, game_id, 0)

\* Mutant of CountsAfter: an id carried forward from the snapshot is not counted.
CountsAfter_CarriedNotMissing(found, missing, hub, existing, game_id) ==
    IF game_id \in DOMAIN hub
    THEN [found |-> found + 1, missing |-> missing]
    ELSE IF game_id \in DOMAIN existing
    THEN [found |-> found, missing |-> missing]
    ELSE [found |-> found, missing |-> missing + 1]

\* Mutant of CountsAfter: an id absent from the registry is not counted at all.
CountsAfter_FoundOnly(found, missing, hub, existing, game_id) ==
    IF game_id \in DOMAIN hub
    THEN [found |-> found + 1, missing |-> missing]
    ELSE [found |-> found, missing |-> missing]

\* found_count and missing_count after lines 122-132 for one game.
CountsAfter(found, missing, hub, existing, game_id) ==
    IF game_id \in DOMAIN hub
    THEN [found |-> found + 1, missing |-> missing]
    ELSE [found |-> found, missing |-> missing + 1]

\* Lines 118-133: one iteration of `for game in games`.
ReconcileStep ==
    /\ pc = "reconcile"
    /\ games.bound
    /\ idx <= Len(games.val)
    /\ LET game_id == games.val[idx]
       IN  /\ final_sizes' = Resolve(final_sizes, hub_sizes, existing_sizes, game_id)
           /\ found_count' = CountsAfter(found_count, missing_count, hub_sizes,
                                         existing_sizes, game_id).found
           /\ missing_count' = CountsAfter(found_count, missing_count, hub_sizes,
                                           existing_sizes, game_id).missing
    /\ idx' = idx + 1
    /\ UNCHANGED << pc, games, expected_ids, hub_sizes, existing_sizes, summary >>
    /\ UNCHANGED << crawlVars, histVars, fileVars, ioDone >>
    /\ UNCHANGED seenVars

\* Line 136: open(..., 'w') once the loop is over; the file is truncated.
OpenWrite ==
    /\ pc = "reconcile"
    /\ games.bound
    /\ idx > Len(games.val)
    /\ sizesFile' = [state |-> "truncated", content |-> EmptyMap]
    /\ ioDone' = ioDone \cup {"open_w"}
    /\ pc' = "dump"
    /\ UNCHANGED << gamesFile, sizesFile0, mainVars, crawlVars, histVars >>
    /\ UNCHANGED seenVars

\* Mutant of Dump: the mapping fetched from the registry is written as it is.
Dump_Hub ==
    /\ pc = "dump"
    /\ sizesFile' = [state |-> "complete", content |-> hub_sizes]
    /\ ioDone' = ioDone \cup {"dump"}
    /\ pc' = "summary"
    /\ UNCHANGED << gamesFile, sizesFile0, mainVars, crawlVars, histVars >>
    /\ UNCHANGED seenVars

\* Line 137: json.dump(final_sizes, f) and the close of the file.
Dump ==
    /\ pc = "dump"
    /\ sizesFile' = [state |-> "complete", content |-> final_sizes]
    /\ ioDone' = ioDone \cup {"dump"}
    /\ pc' = "summary"
    /\ UNCHANGED << gamesFile, sizesFile0, mainVars, crawlVars, histVars >>
    /\ UNCHANGED seenVars

\* Lines 139-155: the summary.
Summary ==
    /\ pc = "summary"
    /\ summary' = [emitted |-> TRUE, total |-> Len(games.val),
                   found |-> found_count, missing |-> missing_count]
    /\ ioDone' = ioDone \cup {"summary"}
    /\ pc' = "done"
    /\ UNCHANGED << games, expected_ids, hub_sizes, existing_sizes, final_sizes,
                    found_count, missing_count, idx >>
    /\ UNCHANGED << crawlVars, histVars, fileVars >>
    /\ UNCHANGED seenVars

-----------------------------------------------------------------------------

Next ==
    \/ ReadGames
    \/ GetOk
    \/ GetFail
    \/ RetrySleep
    \/ RetryOk
    \/ RetryFail
    \/ PageEmpty
    \/ AbsorbLast
    \/ AbsorbNext
    \/ ReadSizes
    \/ ReconcileUnbound
    \/ ReconcileStep
    \/ OpenWrite
    \/ Dump
    \/ Summary

Spec == Init /\ [][Next]_vars

\* The crawl loop has no page limit.  For liveness the cursor value MaxPage stands
\* for every page number >= MaxPage: past it the crawl goes on as before.
AbsorbBeyond ==
    /\ pc = "process"
    /\ data.results # << >>
    /\ HasNext(data)
    /\ page = MaxPage
    /\ all_tags' = Absorb(all_tags, data.results)
    /\ NoteAbsorbed
    /\ Advance(page)
    /\ UNCHANGED << data, retry, mainVars, fileVars >>
    /\ UNCHANGED << lastBadPage, lastGetPage, maxGetPage, stop >>

NextLive ==
    \/ Next
    \/ AbsorbBeyond

\* One sequential flow that never pauses for good: sleeps and requests with a
\* timeout return, so whenever a step is possible a step is taken.
LiveSpec == Init /\ [][NextLive]_vars /\ WF_vars(NextLive)

-----------------------------------------------------------------------------
(* Properties *)

CrawlPcs == {"get", "retry_sleep", "retry_get", "process"}
AfterReconcile == {"dump", "summary", "done"}

\* The sleeps the current page starts with: the inter-page delay, but for page 1.
PageBase == IF page > 1 THEN << PageDelayMs >> ELSE << >>

\* C1: when the initial GET for page k and all 3 retries fail, the crawl stops at
\* page k: no GET is ever issued for a page above k, and the mapping returned is
\* the one aggregated from pages 1..k-1, unaltered.
C1_FailureStopsCrawl ==
    failures = 1 + MaxRetries =>
        /\ stop = "failure"
        /\ pc \notin CrawlPcs
        /\ attempts = 1 + MaxRetries
        /\ lastGetPage = page
        /\ maxGetPage = page
        /\ hub_sizes = tagsAtPage

C1_Witness ==
    /\ stop = "failure"
    /\ page = 2
    /\ tagsAtPage # EmptyMap
    /\ pc = "done"

\* C2: a successfully fetched page with records and a falsy `next` is absorbed and
\* then the crawl stops: the mapping returned is the earlier mapping with that page
\* absorbed, and no GET is issued for page + 1.
C2_NoNextStops ==
    /\ [][ (pc = "process" /\ data.results # << >> /\ ~ data.next) =>
              /\ stop' = "no_next"
              /\ pc' \notin CrawlPcs
              /\ page' = page
              /\ hub_sizes' = Absorb(all_tags, data.results) ]_vars
    /\ [](stop = "no_next" =>
              /\ pc \notin CrawlPcs
              /\ lastGetPage = page
              /\ maxGetPage = page
              /\ hub_sizes = Absorb(tagsAtPage, data.results))

C2_Witness ==
    /\ stop = "no_next"
    /\ page = 2
    /\ tagsAtPage # EmptyMap
    /\ hub_sizes # tagsAtPage
    /\ pc = "done"

\* C3: the sleep before the i-th retry of a page is 2^i seconds (2s, 4s, 8s), one
\* sleep before each retry, in that order; no sleep follows a successful attempt,
\* and a fourth attempt that succeeds is a success.
C3_Backoff ==
    LET n == Len(sleeps) - Len(PageBase)
    IN  /\ n \in 0..3
        /\ \A i \in 1..Len(PageBase) : sleeps[i] = PageBase[i]
        /\ \A i \in 1..n : sleeps[Len(PageBase) + i] = 1000 * (2 ^ i)
        /\ n = IF pc = "retry_get" THEN attempts
               ELSE IF attempts = 0 THEN 0 ELSE attempts - 1
        /\ (attempts = 4 /\ failures = 3) =>
              /\ stop # "failure"
              /\ pc \notin {"retry_sleep", "retry_get"}
              /\ SubSeq(sleeps, Len(PageBase) + 1, Len(sleeps)) = << 2000, 4000, 8000 >>

C3_Witness ==
    /\ pc = "process"
    /\ attempts = 4
    /\ failures = 3
    /\ sleeps = << 2000, 4000, 8000 >>
    /\ data.results # << >>

\* C4: no entry of the aggregated mapping has the stored value 0.
C4_NoZeroStored ==
    \A n \in DOMAIN all_tags : all_tags[n] # 0

\* C5: after reconciliation the keys of the final mapping are exactly the expected
\* ids; ids only in the aggregated mapping or only in the prior snapshot are no keys.
C5_KeysAreExpected ==
    pc \in AfterReconcile =>
        /\ DOMAIN final_sizes = expected_ids
        /\ expected_ids = { gamesFile.games[i] : i \in 1..Len(gamesFile.games) }

C5_Witness ==
    /\ pc = "done"
    /\ (DOMAIN hub_sizes) \ expected_ids # {}
    /\ (DOMAIN existing_sizes) \ expected_ids # {}
    /\ expected_ids \ ((DOMAIN hub_sizes) \cup (DOMAIN existing_sizes)) # {}

\* C6: for every expected id the final value is aggregated[id] when the id was
\* aggregated, else priorSnapshot[id] when the snapshot has it, else 0.
C6_Precedence ==
    pc \in AfterReconcile =>
        \A id \in expected_ids :
            /\ id \in DOMAIN final_sizes
            /\ final_sizes[id] =
                  IF id \in DOMAIN hub_sizes THEN hub_sizes[id]
                  ELSE IF id \in DOMAIN sizesFile0.content THEN sizesFile0.content[id]
                  ELSE 0

C6_Witness ==
    /\ pc = "done"
    /\ \E id \in expected_ids :
          /\ id \in DOMAIN hub_sizes
          /\ id \in DOMAIN existing_sizes
          /\ hub_sizes[id] # existing_sizes[id]
    /\ \E id \in expected_ids :
          /\ id \notin DOMAIN hub_sizes
          /\ id \in DOMAIN existing_sizes
          /\ final_sizes[id] > 0
    /\ \E id \in expected_ids :
          /\ id \notin DOMAIN hub_sizes
          /\ id \notin DOMAIN existing_sizes

\* C7: when games.json is missing the run writes nothing: image-sizes.json is never
\* opened for writing nor changed, and the run does not complete.
C7_MissingWritesNothing ==
    ~ gamesFile.present =>
        /\ sizesFile = sizesFile0
        /\ ioDone \cap {"open_w", "dump", "summary"} = {}
        /\ pc \notin AfterReconcile
        /\ ~ summary.emitted

C7_Witness ==
    /\ ~ gamesFile.present
    /\ pc = "aborted"
    /\ sizesFile0.state = "complete"
    /\ hub_sizes # EmptyMap

\* C8 as claimed: when games.json is missing, no registry GET, no sleep and no read
\* of the prior snapshot happens after the missing input is detected.
C8_TerminatesImmediately ==
    ~ gamesFile.present => ioDone \cap {"GET", "sleep", "read_sizes"} = {}

\* C8 as amended: when games.json is missing the run does not end on detecting it;
\* the registry is still crawled and the prior snapshot still read, and the run
\* aborts only when reconciliation starts, before anything is written.
C8_AbortsAtReconcile ==
    (~ gamesFile.present /\ "read_games" \in ioDone) =>
        /\ pc \in CrawlPcs \cup {"read_sizes", "reconcile", "aborted"}
        /\ pc = "aborted" =>
              /\ {"GET", "read_sizes"} \subseteq ioDone
              /\ stop # "none"
              /\ idx = 1
              /\ final_sizes = EmptyMap
              /\ sizesFile = sizesFile0

C8_Witness ==
    /\ ~ gamesFile.present
    /\ pc = "aborted"
    /\ {"GET", "sleep", "read_sizes"} \subseteq ioDone

\* The run has completed: the crawl stopped, image-sizes.json holds the final
\* mapping and the summary was emitted.
Completed ==
    /\ pc = "done"
    /\ stop \in {"failure", "exhausted", "no_next"}
    /\ sizesFile = [state |-> "complete", content |-> final_sizes]
    /\ summary.emitted

\* C9 as claimed: whenever games.json is present the run completes, whatever the
\* registry answers.
C9_AlwaysCompletes ==
    gamesFile.present => <>Completed

\* C9 as amended: whenever games.json is present the run completes, unless the
\* registry goes on for ever answering with pages that have records and a `next`
\* (the crawl has no page limit and then never stops).
C9_CompletesUnlessEndless ==
    gamesFile.present =>
        (<>Completed) \/ ([]<><< AbsorbNext \/ AbsorbBeyond >>_vars)

C9_Witness ==
    /\ gamesFile.present
    /\ Completed
    /\ stop = "failure"
    /\ page = MaxPage

\* C10 as claimed: once the body of page k could not be parsed, pagination stops at
\* that page and no later page is fetched.
C10_BadBodyIsTerminal ==
    lastBadPage # 0 => maxGetPage = lastBadPage

\* C10 as amended: a body that cannot be parsed counts as a failed attempt and is
\* retried like one; it never aborts the run, and when the body of page k cannot
\* be parsed on the initial attempt and on all 3 retries, pagination stops at page
\* k, no later page is fetched and the mapping aggregated before is returned.
C10_BadBodyIsRetried ==
    /\ (gamesFile.present /\ lastBadPage # 0) => pc # "aborted"
    /\ (parseFails > 0 /\ failures < 1 + MaxRetries) => stop # "failure"
    /\ parseFails = 1 + MaxRetries =>
          /\ stop = "failure"
          /\ pc \notin CrawlPcs
          /\ lastGetPage = page
          /\ maxGetPage = page
          /\ hub_sizes = tagsAtPage

C10_Witness ==
    /\ parseFails = 1 + MaxRetries
    /\ page = 2
    /\ tagsAtPage # EmptyMap
    /\ pc = "done"
    /\ sizesFile = [state |-> "complete", content |-> final_sizes]

\* C11: in a run with games.json present, image-sizes.json is written exactly once
\* (one open for writing, one dump), only after the crawl has stopped and every
\* expected id was reconciled, and what is written is the final mapping.
C11_WrittenOnceAtEnd ==
    /\ [](gamesFile.present =>
            /\ pc \notin AfterReconcile =>
                  /\ sizesFile = sizesFile0
                  /\ ioDone \cap {"open_w", "dump"} = {}
            /\ pc \in AfterReconcile =>
                  /\ stop \in {"failure", "exhausted", "no_next"}
                  /\ games.bound
                  /\ idx = Len(games.val) + 1
                  /\ DOMAIN final_sizes = expected_ids
            /\ pc \in {"summary", "done"} =>
                  sizesFile = [state |-> "complete", content |-> final_sizes])
    /\ [][ sizesFile' # sizesFile =>
              \/ pc = "reconcile" /\ pc' = "dump"
              \/ pc = "dump" /\ pc' = "summary" ]_vars
    /\ [][ (pc \in {"summary", "done"}) =>
              (pc' \in {"summary", "done"} /\ final_sizes' = final_sizes) ]_vars

C11_Witness ==
    /\ pc = "done"
    /\ stop = "failure"
    /\ sizesFile0.state = "complete"
    /\ sizesFile.content # sizesFile0.content
    /\ sizesFile.content # hub_sizes
    /\ sizesFile.content = final_sizes

\* C12: pages are fetched and absorbed in increasing page order from 1 in steps of
\* 1: the first GET for page k+1 comes only after page k was fetched successfully,
\* had records, was absorbed and carried a truthy `next`; no page is skipped and
\* none is fetched again after a later one.
C12_PagesInOrder ==
    /\ [](/\ lastGetPage = maxGetPage
          /\ lastGetPage \in {page - 1, page}
          /\ (page > 1 /\ attempts = 0) =>
                /\ lastGetPage = page - 1
                /\ data.results # << >>
                /\ data.next
                /\ all_tags = tagsAtPage)
    /\ [][ page' # page =>
              /\ page' = page + 1
              /\ pc = "process"
              /\ attempts > failures
              /\ lastGetPage = page
              /\ data.results # << >>
              /\ data.next
              /\ all_tags' = Absorb(all_tags, data.results) ]_vars
    /\ [][ lastGetPage' # lastGetPage =>
              /\ lastGetPage' = lastGetPage + 1
              /\ lastGetPage' = page
              /\ attempts = 0 ]_vars

C12_Witness ==
    /\ pc = "done"
    /\ maxGetPage = 2
    /\ stop = "no_next"
    /\ hub_sizes # tagsAtPage
    /\ tagsAtPage # EmptyMap

\* The name of a record, "" when it has none.
NameOf(rec) == IF "name" \in DOMAIN rec THEN rec.name ELSE ""

\* The record at position i is the last one of the list with its name.
IsLastOfName(results, i) ==
    \A j \in (i + 1)..Len(results) : NameOf(results[j]) # NameOf(results[i])

\* C13 as claimed: after a page is absorbed, the value stored for each name of the
\* page is the one derived from the last record with that name.
C13_LastRecordWins ==
    [][ (pc = "process" /\ data.results # << >>) =>
           \A i \in 1..Len(data.results) :
              (/\ NameOf(data.results[i]) # ""
               /\ IsLastOfName(data.results, i)
               /\ NameOf(data.results[i]) \in DOMAIN all_tags') =>
                  all_tags'[NameOf(data.results[i])] =
                      SizeGB(CarriedSize(data.results[i])) ]_vars

\* C13 as amended: for every tag name the value in the aggregated (and returned)
\* mapping is the one derived from the last record with that name that carried a
\* positive size; a later record of size 0 leaves the earlier value in place.
C13_LastSizedRecordWins ==
    /\ DOMAIN all_tags = DOMAIN lastSized
    /\ \A n \in DOMAIN all_tags : all_tags[n] = SizeGB(CarriedSize(lastSized[n]))
    /\ stop # "none" => hub_sizes = all_tags

C13_Witness ==
    /\ pc = "done"
    /\ page = 2
    /\ \E i \in 1..Len(data.results) :
          /\ NameOf(data.results[i]) \in DOMAIN tagsAtPage
          /\ hub_sizes[NameOf(data.results[i])] # tagsAtPage[NameOf(data.results[i])]
          /\ hub_sizes[NameOf(data.results[i])] = SizeGB(CarriedSize(data.results[i]))

\* C14: a page whose record list is empty ends the crawl whatever its `next`
\* says: nothing is absorbed, no further page is requested, and what was
\* aggregated before the page is returned; an empty page 1 returns the empty
\* mapping.
C14_EmptyPageStops ==
    /\ [][ (pc = "process" /\ data.results = << >>) =>
              /\ stop' = "exhausted"
              /\ pc' \notin CrawlPcs
              /\ hub_sizes' = all_tags
              /\ all_tags' = all_tags
              /\ page' = page
              /\ lastGetPage' = lastGetPage ]_vars
    /\ [](stop = "exhausted" =>
              /\ pc \notin CrawlPcs
              /\ data.results = << >>
              /\ lastGetPage = page
              /\ maxGetPage = page
              /\ hub_sizes = tagsAtPage
              /\ page = 1 => hub_sizes = EmptyMap)

C14_Witness ==
    /\ pc = "done"
    /\ stop = "exhausted"
    /\ page = 1
    /\ data.next
    /\ hub_sizes = EmptyMap

\* The size rule as claimed: the primary size when positive, otherwise the sum
\* of the sub-record sizes.
ClaimedSize(rec) ==
    LET primary == IF "full_size" \in DOMAIN rec THEN rec.full_size ELSE 0
        layers  == IF "images" \in DOMAIN rec THEN rec.images ELSE << >>
    IN  IF primary > 0 THEN primary ELSE SumSizes(layers)

RECURSIVE RuleAbsorb(_, _, _)
\* The mapping after a page under a size rule: a named record whose size is
\* positive is stored, every other record is left out.
RuleAbsorb(tags, results, asClaimed) ==
    IF results = << >> THEN tags
    ELSE LET rec  == Head(results)
             size == IF asClaimed THEN ClaimedSize(rec) ELSE CarriedSize(rec)
         IN  RuleAbsorb(IF NameOf(rec) # "" /\ size > 0
                        THEN Put(tags, NameOf(rec), SizeGB(size))
                        ELSE tags,
                        Tail(results), asClaimed)

\* C15 as claimed: the sub-record sum is used whenever the primary size is not
\* positive (zero, absent or negative).
C15_FallbackWhenNotPositive ==
    [][ (pc = "process" /\ data.results # << >>) =>
            all_tags' = RuleAbsorb(all_tags, data.results, TRUE) ]_vars

\* C15 as amended: for named records the effective size is the primary size when
\* it is not zero, and the sum of the sub-record sizes when it is zero or absent;
\* the record is stored only when that size is positive, so a record with a
\* negative primary size is left out whatever its sub-records say.
C15_FallbackWhenZero ==
    /\ [][ (pc = "process" /\ data.results # << >>) =>
              all_tags' = RuleAbsorb(all_tags, data.results, FALSE) ]_vars
    /\ [](pc = "process" =>
              \A i \in 1..Len(data.results) :
                  EffectiveSize(data.results[i]) = CarriedSize(data.results[i]))

C15_Witness ==
    /\ pc = "done"
    /\ "x" \in DOMAIN hub_sizes
    /\ hub_sizes["x"] = SizeGB(SumSizes(TagLayers.images))
    /\ \E i \in 1..Len(data.results) :
          /\ CarriedSize(data.results[i]) < 0
          /\ ClaimedSize(data.results[i]) > 0
          /\ NameOf(data.results[i]) \notin DOMAIN hub_sizes

\* The registry mapping is exactly the prior snapshot, ids and values.
SameAsSnapshot ==
    /\ sizesFile0.state = "complete"
    /\ stop # "none"
    /\ hub_sizes = sizesFile0.content

\* The final mapping the prior snapshot alone gives for the expected ids.
FromSnapshot ==
    [id \in expected_ids |->
        IF id \in DOMAIN sizesFile0.content THEN sizesFile0.content[id] ELSE 0]

\* C16 as claimed: when the registry mapping is exactly the prior snapshot, the
\* final mapping is the one the snapshot gives and missing_count is 0, whatever
\* the expected ids are.
C16_Idempotent ==
    (pc \in AfterReconcile /\ SameAsSnapshot) =>
        /\ final_sizes = FromSnapshot
        /\ missing_count = 0

\* C16 as amended: when the registry mapping is exactly the prior snapshot, the
\* final mapping is the one the snapshot gives; missing_count is the number of
\* expected entities whose id the snapshot does not hold, hence 0 exactly when
\* every expected id is an id of the snapshot.
C16_IdempotentOnKnownIds ==
    (pc \in AfterReconcile /\ SameAsSnapshot) =>
        /\ final_sizes = FromSnapshot
        /\ missing_count =
              Cardinality({ i \in 1..Len(games.val) :
                               games.val[i] \notin DOMAIN sizesFile0.content })
        /\ missing_count = 0 <=> expected_ids \subseteq DOMAIN sizesFile0.content

C16_Witness ==
    /\ pc = "done"
    /\ SameAsSnapshot
    /\ hub_sizes # EmptyMap
    /\ expected_ids = DOMAIN hub_sizes
    /\ final_sizes = hub_sizes
    /\ missing_count = 0

\* The positions of `games` whose id is, or is not, a key of the registry mapping.
InHub == { i \in 1..Len(games.val) : games.val[i] \in DOMAIN hub_sizes }
NotInHub == { i \in 1..Len(games.val) : games.val[i] \notin DOMAIN hub_sizes }

\* C17: after reconciliation missing_count is the number of expected entities
\* whose id is absent from the registry mapping, whether or not the snapshot had
\* a value for them, found_count the number whose id is present, and together
\* they make the total the summary reports.
C17_CountsPartition ==
    /\ (pc = "reconcile" /\ games.bound) => found_count + missing_count = idx - 1
    /\ pc \in AfterReconcile =>
          /\ missing_count = Cardinality(NotInHub)
          /\ found_count = Cardinality(InHub)
          /\ found_count + missing_count = Len(games.val)
    /\ summary.emitted =>
          /\ summary.total = Len(games.val)
          /\ summary.found = found_count
          /\ summary.missing = missing_count
          /\ summary.found + summary.missing = summary.total

C17_Witness ==
    /\ pc = "done"
    /\ summary.emitted
    /\ found_count > 0
    /\ \E i \in NotInHub : games.val[i] \in DOMAIN existing_sizes
    /\ \E i \in NotInHub : games.val[i] \notin DOMAIN existing_sizes

RECURSIVE ReconcileFrom(_, _, _, _)
\* Lines 118-133 run over a whole sequence of ids from the state `acc`.
ReconcileFrom(acc, gs, hub, existing) ==
    IF gs = << >> THEN acc
    ELSE LET game_id == Head(gs)
             counts  == CountsAfter(acc.found, acc.missing, hub, existing, game_id)
         IN  ReconcileFrom([final   |-> Resolve(acc.final, hub, existing, game_id),
                            found   |-> counts.found,
                            missing |-> counts.missing],
                           Tail(gs), hub, existing)

\* Lines 114-133: the reconciliation of a sequence of ids.
ReconcileAll(gs, hub, existing) ==
    ReconcileFrom([final |-> EmptyMap, found |-> 0, missing |-> 0], gs, hub, existing)

\* The orders in which 1..n can be gone through.
Orders(n) ==
    { p \in [1..n -> 1..n] : \A i, j \in 1..n : p[i] = p[j] => i = j }

\* C18: the order in which the expected entities are iterated does not matter:
\* reconciling any permutation of `games` against the same registry mapping and
\* snapshot gives the final mapping and the counts the run ended with.
C18_OrderIrrelevant ==
    pc \in AfterReconcile =>
        \A p \in Orders(Len(games.val)) :
            ReconcileAll([i \in 1..Len(games.val) |-> games.val[p[i]]],
                         hub_sizes, existing_sizes)
              = [final |-> final_sizes, found |-> found_count,
                 missing |-> missing_count]

C18_Witness ==
    /\ pc = "done"
    /\ Len(games.val) = 3
    /\ found_count > 0
    /\ missing_count > 0
    /\ \E id \in expected_ids : final_sizes[id] = 0
    /\ \E id \in expected_ids \ DOMAIN hub_sizes : final_sizes[id] > 0

\* C19: a missing image-sizes.json is not an error: the run goes on with an
\* empty snapshot, every expected id absent from the registry mapping gets 0 and
\* is counted as missing, and the output is written.
C19_MissingSnapshotIsEmpty ==
    (sizesFile0.state = "absent" /\ gamesFile.present) =>
        /\ pc # "aborted"
        /\ pc \in {"reconcile"} \cup AfterReconcile => existing_sizes = EmptyMap
        /\ pc \in AfterReconcile =>
              /\ \A id \in expected_ids \ DOMAIN hub_sizes : final_sizes[id] = 0
              /\ missing_count = Cardinality(expected_ids \ DOMAIN hub_sizes)
        /\ pc \in {"summary", "done"} =>
              sizesFile = [state |-> "complete", content |-> final_sizes]

C19_Witness ==
    /\ pc = "done"
    /\ sizesFile0.state = "absent"
    /\ sizesFile.state = "complete"
    /\ missing_count > 0
    /\ found_count > 0
    /\ \E id \in expected_ids \ DOMAIN hub_sizes : sizesFile.content[id] = 0

\* The records of a page that have a non-empty name, in page order.
Named(results) == SelectSeq(results, LAMBDA rec : NameOf(rec) # "")

\* C20: a record whose name is empty or missing is skipped whatever its size:
\* a page is absorbed as if such records were not in it, and "" is never a key
\* of the aggregated mapping.
C20_NamelessSkipped ==
    /\ []("" \notin DOMAIN all_tags /\ "" \notin DOMAIN hub_sizes)
    /\ [][ (pc = "process" /\ data.results # << >>) =>
              all_tags' = Absorb(all_tags, Named(data.results)) ]_vars

C20_Witness ==
    /\ pc = "done"
    /\ hub_sizes # EmptyMap
    /\ \E i \in 1..Len(data.results) :
          /\ "name" \notin DOMAIN data.results[i]
          /\ CarriedSize(data.results[i]) > 0

\* C21: a page gets at most 4 GETs, 1 initial and at most 3 retries, all for the
\* same page number; a GET is issued only while every earlier attempt for the page
\* failed, so none follows a success; and the retry loop of every page starts at
\* retry 0 whatever value the loop variable kept from an earlier page, so a page is
\* given up only after its own 4 attempts.
C21_RetryBudget ==
    /\ [](/\ attempts \in 0..(1 + MaxRetries)
          /\ failures \in {attempts - 1, attempts} \cap 0..(1 + MaxRetries)
          /\ attempts > 0 => lastGetPage = page
          /\ attempts > failures => pc \notin {"get", "retry_sleep", "retry_get"}
          /\ pc \in {"retry_sleep", "retry_get"} =>
                /\ retry \in 0..(MaxRetries - 1)
                /\ attempts = retry + 1
                /\ failures = attempts
          /\ pc = "get" => attempts = 0
          /\ stop = "failure" => attempts = 1 + MaxRetries)
    /\ [][ attempts' # attempts =>
              \/ /\ attempts' = attempts + 1
                 /\ failures = attempts
                 /\ page' = page
                 /\ lastGetPage' = page
              \/ /\ attempts' = 0
                 /\ page' = page + 1 ]_vars
    /\ [][ (pc = "get" /\ pc' = "retry_sleep") => retry' = 0 ]_vars

C21_Witness ==
    /\ page = 2
    /\ retry = MaxRetries - 1
    /\ pc = "get"
    /\ attempts = 0
    /\ failures = 0

\* The number of inter-page delays in a sleep log.
DelaysIn(log) == Cardinality({ i \in 1..Len(log) : log[i] = PageDelayMs })

\* C22: the 0.5 s delay is slept exactly once between the absorption of page k and
\* the first GET for page k + 1 and at no other time: not before page 1, not when
\* a page ends the crawl (failure, no records, falsy `next`), not between the
\* retries of a page.
C22_DelayOnlyBetweenPages ==
    /\ [](/\ DelaysIn(sleeps) = IF page > 1 THEN 1 ELSE 0
          /\ page > 1 => sleeps[1] = PageDelayMs
          /\ lastGetPage = 0 => sleeps = << >>)
    /\ [][ page' # page =>
              /\ pc = "process"
              /\ data.results # << >>
              /\ data.next
              /\ all_tags' = Absorb(all_tags, data.results)
              /\ sleeps' = << PageDelayMs >>
              /\ pc' = "get"
              /\ attempts' = 0
              /\ lastGetPage' = page ]_vars
    /\ [][ page' = page =>
              \/ sleeps' = sleeps
              \/ /\ pc = "retry_sleep"
                 /\ sleeps' = Append(sleeps, 1000 * (2 ^ (retry + 1))) ]_vars
    /\ [][ (stop' # "none") => sleeps' = sleeps ]_vars

C22_Witness ==
    /\ pc = "done"
    /\ page = 2
    /\ stop = "failure"
    /\ sleeps = << PageDelayMs, 2000, 4000, 8000 >>

\* The names for which the page holds a record that carries a positive size.
SizedNames(results) ==
    { NameOf(results[i]) : i \in { j \in 1..Len(results) : CarriedSize(results[j]) > 0 } }

\* C23: during a crawl the key set of the aggregated mapping only grows; a page
\* whose records for a stored name all have size 0 leaves the stored value as it
\* was; a failed GET and a retry sleep change neither the mapping nor the cursor.
C23_KeysOnlyGrow ==
    /\ [][ /\ DOMAIN all_tags \subseteq DOMAIN all_tags'
           /\ all_tags' # all_tags => (pc = "process" /\ data.results # << >>) ]_vars
    /\ [][ (pc = "process") =>
              \A n \in DOMAIN all_tags \ SizedNames(data.results) :
                  all_tags'[n] = all_tags[n] ]_vars
    /\ [][ (failures' = failures + 1 \/ pc = "retry_sleep") =>
              (all_tags' = all_tags /\ page' = page) ]_vars

C23_Witness ==
    /\ stop = "no_next"
    /\ page = 2
    /\ \E i \in 1..Len(data.results) :
          /\ NameOf(data.results[i]) \in DOMAIN tagsAtPage
          /\ CarriedSize(data.results[i]) = 0
          /\ NameOf(data.results[i]) \notin SizedNames(data.results)
          /\ all_tags[NameOf(data.results[i])] = tagsAtPage[NameOf(data.results[i])]

\* C24: the write of image-sizes.json is atomic: in every state of a run the file
\* holds either what it held before the run or the complete final mapping, never
\* an empty or partly written one.
C24_AtomicWrite ==
    \/ sizesFile = sizesFile0
    \/ sizesFile = [state |-> "complete", content |-> final_sizes]

====
